---- MODULE Spec2Model ----
(***************************************************************************)
(* A model of scripts/csv_to_ics.py: the rows read from the CSV file, the  *)
(* synthetic ice cuts built from the gaps between rink events, the merge   *)
(* of events that start together, and the row loops of the three pages     *)
(* that mark the current/next event (static list, rolling display, paged   *)
(* display).                                                               *)
(*                                                                         *)
(* Text is a sequence of one-character strings, so that strip, split,      *)
(* join, lower and the substring test are computed and not assumed.  A     *)
(* timestamp of the CSV file ("%m/%d/%Y %I:%M:%S %p") is a record of its   *)
(* fields; parse_datetime turns it into seconds on the local wall clock    *)
(* and strftime turns seconds back into the fields.  All datetimes the     *)
(* script compares carry the same tzinfo object, so Python compares their  *)
(* wall-clock values: an instant is an integer number of seconds.          *)
(***************************************************************************)
EXTENDS Integers, Sequences, FiniteSets, TLC

VARIABLES
    all_rows,           \* csv_to_ics: the rows read so far, in input order
    synthetic,          \* csv_to_ics: the result of build_synthetic_icecuts
    pc,                 \* where the program is
    view,               \* the page being generated
    selectedDay,        \* render(): the ?day= parameter of the paged display
    events,             \* the sorted (and merged) list the row loop runs over
    idx,                \* the position of the row loop in events (1-based)
    now,                \* the reference instant sampled for the pass
    future_now_marked,  \* the flag of the row loop
    html,               \* the rows rendered so far in this pass
    prev_marks,         \* history: the rows marked by the pass before this
                        \* one when it was the same page at the same now
    cal,                \* csv_to_ics: the four calendars (cal_all, cal_rink,
                        \* cal_locker, cal_room) as lists of their events
    outputs,            \* csv_to_ics: the files its statements have written
    error,              \* the exception that ended the run, if one did
    subheader           \* the day the "Today" line of the page names

vars == <<all_rows, synthetic, pc, view, selectedDay, events, idx, now,
          future_now_marked, html, prev_marks, cal, outputs, error,
          subheader>>

\* the state of csv_to_ics that the generate functions cannot reach
run_state == <<cal, outputs, error>>

-----------------------------------------------------------------------------
(* Bounds of the model *)

\* the number of rows read from the CSV file, for each set of inputs
MaxRows == 2
MaxRunRows == 3
MaxStyleRows == 1
MaxSeqRows == 2
MaxKindRows == 2
MaxGapRows == 3
MaxMergeRows == 3

-----------------------------------------------------------------------------
(* Text *)

UpperCase == <<"A","B","C","D","E","F","G","H","I","J","K","L","M",
               "N","O","P","Q","R","S","T","U","V","W","X","Y","Z">>
LowerCase == <<"a","b","c","d","e","f","g","h","i","j","k","l","m",
               "n","o","p","q","r","s","t","u","v","w","x","y","z">>

\* str.lower(), one character
LowerOf ==
    [c \in {UpperCase[i] : i \in 1..26} |->
        LowerCase[CHOOSE i \in 1..26 : UpperCase[i] = c]]

lower_char(c) == IF c \in DOMAIN LowerOf THEN LowerOf[c] ELSE c

\* str.lower()
lower(s) == [i \in 1..Len(s) |-> lower_char(s[i])]

\* the `in` operator on strings: k is a substring of s
contains(s, k) ==
    \E i \in 1..(Len(s) - Len(k) + 1) : SubSeq(s, i, i + Len(k) - 1) = k

RECURSIVE lstrip(_)
lstrip(s) == IF s # <<>> /\ Head(s) = " " THEN lstrip(Tail(s)) ELSE s

RECURSIVE rstrip(_)
rstrip(s) ==
    IF s # <<>> /\ s[Len(s)] = " " THEN rstrip(SubSeq(s, 1, Len(s) - 1)) ELSE s

\* str.strip()
strip(s) == rstrip(lstrip(s))

\* str.split(): the maximal runs of non-blank characters, in order
RECURSIVE split_from(_, _, _)
split_from(s, word, acc) ==
    IF s = <<>>
    THEN IF word = <<>> THEN acc ELSE Append(acc, word)
    ELSE IF Head(s) = " "
         THEN split_from(Tail(s), <<>>,
                         IF word = <<>> THEN acc ELSE Append(acc, word))
         ELSE split_from(Tail(s), Append(word, Head(s)), acc)

split(s) == split_from(s, <<>>, <<>>)

\* " ".join(words)
RECURSIVE join(_)
join(words) ==
    IF words = <<>> THEN <<>>
    ELSE IF Len(words) = 1 THEN words[1]
    ELSE words[1] \o <<" ">> \o join(Tail(words))

EventText   == <<"E","v","e","n","t">>
IceCutQText == <<"I","C","E"," ","C","U","T","?">>
IceCutText  == <<"I","C","E"," ","C","U","T">>

\* the keyword list of the row loops
keywords == { <<"t","a","k","e","d","o","w","n">>,
              <<"i","c","e"," ","c","u","t">>,
              <<"i","c","e","c","u","t">> }

-----------------------------------------------------------------------------
(* Timestamps *)

SecondsPerDay == 86400

\* datetime.strptime(dt_str.strip(), "%m/%d/%Y %I:%M:%S %p"), as seconds
parse_datetime(ts) ==
    ts.date * SecondsPerDay
        + ((ts.hour % 12) + (IF ts.pm THEN 12 ELSE 0)) * 3600
        + ts.minute * 60 + ts.second

\* strptime accepts the text: %I is 1..12, %M and %S are 0..59; otherwise
\* parse_datetime raises ValueError
parses(ts) ==
    /\ ts.date >= 0
    /\ ts.hour \in 1..12
    /\ ts.minute \in 0..59
    /\ ts.second \in 0..59

\* datetime.strftime("%m/%d/%Y %I:%M:%S %p"): whole seconds, 12-hour clock
strftime(t) ==
    LET h == (t % SecondsPerDay) \div 3600
    IN  [date   |-> t \div SecondsPerDay,
         hour   |-> IF h % 12 = 0 THEN 12 ELSE h % 12,
         minute |-> (t % 3600) \div 60,
         second |-> t % 60,
         pm     |-> h >= 12]

\* datetime.date()
date_of(t) == t \div SecondsPerDay

\* int(x / 60): truncation toward zero
whole_minutes(secs) == IF secs >= 0 THEN secs \div 60 ELSE -((-secs) \div 60)

-----------------------------------------------------------------------------
(* Rows *)

\* a row of the CSV file, as csv.DictReader gives it
Row(start_t, end_t, best, desc, res, color, descr) ==
    [start |-> strftime(start_t), end |-> strftime(end_t),
     best_desc |-> best, desc |-> desc, resource_id |-> res,
     et_color |-> color, description |-> descr, synthetic |-> ""]

start_of(r) == parse_datetime(r.start)
end_of(r)   == parse_datetime(r.end)

\* row.get('best_desc') or row.get('desc') or "Event"
raw_desc(r) ==
    IF r.best_desc # <<>> THEN r.best_desc
    ELSE IF r.desc # <<>> THEN r.desc ELSE EventText

\* sorted(events, key=lambda r: parse_datetime(r['start'])): stable
RECURSIVE insert_sorted(_, _)
insert_sorted(sorted, r) ==
    IF sorted = <<>> THEN <<r>>
    ELSE IF start_of(sorted[Len(sorted)]) <= start_of(r)
         THEN Append(sorted, r)
         ELSE Append(insert_sorted(SubSeq(sorted, 1, Len(sorted) - 1), r),
                     sorted[Len(sorted)])

RECURSIVE sort_from(_, _)
sort_from(rows, acc) ==
    IF rows = <<>> THEN acc
    ELSE sort_from(Tail(rows), insert_sorted(acc, Head(rows)))

sorted_by_start(rows) == sort_from(rows, <<>>)

\* [r for r in rows if r.get("resource_id") == res]
RECURSIVE filter_resource(_, _)
filter_resource(rows, res) ==
    IF rows = <<>> THEN <<>>
    ELSE IF Head(rows).resource_id = res
         THEN <<Head(rows)>> \o filter_resource(Tail(rows), res)
         ELSE filter_resource(Tail(rows), res)

-----------------------------------------------------------------------------
(* build_synthetic_icecuts *)

HashText == <<"#">>
SynthColor == HashText \o <<"9","9","9","9","9","9">>

\* (start_next - end_current).total_seconds(); gap_minutes is this over 60.0
gap_seconds(current, nxt) == start_of(nxt) - end_of(current)

\* the band with its lower end closed: 5 <= gap_minutes <= 10
in_gap_band_closed_lower(secs) == 5 * 60 =< secs /\ secs =< 10 * 60

\* 5 < gap_minutes <= 10, with gap_minutes = secs / 60.0 (exact at 5.0, 10.0)
in_gap_band(secs) == 5 * 60 < secs /\ secs =< 10 * 60

\* an ice cut of a fixed 10 minutes: end_current + timedelta(minutes=10)
synth_end_fixed(current, nxt) == end_of(current) + 10 * 60

\* end_current + timedelta(minutes=gap_minutes): the float product is within
\* a microsecond of the whole number of seconds, which timedelta rounds to
synth_end(current, nxt) == end_of(current) + gap_seconds(current, nxt)

\* the dict appended for one qualifying pair (it has no 'description' key:
\* the field is the empty string here, as row.get('description', '') reads it)
synthetic_row(current, nxt) ==
    [start |-> strftime(end_of(current)),
     end |-> strftime(synth_end(current, nxt)),
     best_desc |-> <<>>, desc |-> IceCutQText, resource_id |-> "1",
     et_color |-> SynthColor, description |-> "", synthetic |-> "1"]

\* the loop over i in range(len(rink_events_sorted) - 1)
RECURSIVE synthetic_from(_, _, _)
synthetic_from(rink, i, acc) ==
    IF i > Len(rink) - 1 THEN acc
    ELSE synthetic_from(rink, i + 1,
            IF in_gap_band(gap_seconds(rink[i], rink[i + 1]))
            THEN Append(acc, synthetic_row(rink[i], rink[i + 1]))
            ELSE acc)

build_synthetic_icecuts(rows) ==
    synthetic_from(sorted_by_start(filter_resource(rows, "1")), 1, <<>>)

-----------------------------------------------------------------------------
(* merge_concurrent_events *)

\* the inner while loop, were it to group on start and end together
RECURSIVE group_end_same_end(_, _, _)
group_end_same_end(evs, start_i, j) ==
    IF /\ j =< Len(evs)
       /\ start_of(evs[j]) = start_i
       /\ end_of(evs[j]) = end_of(evs[j - 1])
    THEN group_end_same_end(evs, start_i, j + 1)
    ELSE j

\* the inner while loop: the first index after i whose start differs
RECURSIVE group_end(_, _, _)
group_end(evs, start_i, j) ==
    IF j =< Len(evs) /\ start_of(evs[j]) = start_i
    THEN group_end(evs, start_i, j + 1)
    ELSE j

\* (r.get('best_desc') or r.get('desc') or "Event").strip() for r in group
descs_of(group) == [k \in 1..Len(group) |-> strip(raw_desc(group[k]))]

\* the shortest of the word lists: zip stops there
RECURSIVE min_len(_)
min_len(word_lists) ==
    IF Len(word_lists) = 1 THEN Len(word_lists[1])
    ELSE LET m == min_len(Tail(word_lists))
         IN  IF Len(word_lists[1]) < m THEN Len(word_lists[1]) ELSE m

\* for words in zip(*word_lists): append while all are equal, else break;
\* zip yields as many tuples as the shortest list has words
RECURSIVE common_prefix_from(_, _, _, _)
common_prefix_from(word_lists, shortest, k, acc) ==
    IF k > shortest THEN acc
    ELSE IF \A w \in 1..Len(word_lists) : word_lists[w][k] = word_lists[1][k]
         THEN common_prefix_from(word_lists, shortest, k + 1,
                                 Append(acc, word_lists[1][k]))
         ELSE acc

common_prefix(group) ==
    LET descs == descs_of(group)
        word_lists == [k \in 1..Len(descs) |-> split(descs[k])]
    IN  common_prefix_from(word_lists, min_len(word_lists), 1, <<>>)

\* the fallback taken from the last member: descs[-1]
merged_desc_last(group) ==
    LET prefix == common_prefix(group)
    IN  IF prefix # <<>> THEN join(prefix) ELSE descs_of(group)[Len(group)]

\* " ".join(common_prefix) if common_prefix else descs[0]
merged_desc(group) ==
    LET prefix == common_prefix(group)
    IN  IF prefix # <<>> THEN join(prefix) ELSE descs_of(group)[1]

\* A row that a function receives is an object of its caller.  Where it
\* matters which object a row is, the row carries its position in the
\* caller's list in the field id; a dict made by the function has no id.
with_ids(rows) == [i \in 1..Len(rows) |-> rows[i] @@ [id |-> i]]
without_id(r) == [f \in DOMAIN r \ {"id"} |-> r[f]]

\* base = group[0]: the object of the caller itself
dict_alias(r) == r

\* dict(r): a new dict with the items of r
dict_copy(r) == [f \in DOMAIN r \ {"id"} |-> r[f]]

\* the merged row built on the last member: base = dict(group[-1])
merged_row_from_last(group) ==
    LET title == merged_desc(group)
    IN  [dict_copy(group[Len(group)]) EXCEPT !.desc = title,
                                             !.best_desc = title]

\* base = dict(group[0]); base["desc"] = merged_desc;
\* base["best_desc"] = merged_desc
merged_row(group) ==
    LET title == merged_desc(group)
    IN  [dict_copy(group[1]) EXCEPT !.desc = title, !.best_desc = title]

\* the outer while loop over the sorted events
RECURSIVE merge_from(_, _, _)
merge_from(evs, i, merged) ==
    IF i > Len(evs) THEN merged
    ELSE LET j == group_end(evs, start_of(evs[i]), i + 1)
             group == SubSeq(evs, i, j - 1)
         IN  merge_from(evs, j,
                Append(merged,
                       IF Len(group) = 1 THEN evs[i] ELSE merged_row(group)))

merge_concurrent_events(evs) == merge_from(sorted_by_start(evs), 1, <<>>)

\* the rows of the caller after merge_concurrent_events(rows) has run: the
\* items of row i are those of the object i of the merged list, if the
\* merged list holds that object, and the items it had otherwise
rows_after_merge(rows) ==
    LET out == merge_concurrent_events(with_ids(rows))
        Same(i) == { k \in 1..Len(out) :
                       "id" \in DOMAIN out[k] /\ out[k].id = i }
    IN  [i \in 1..Len(rows) |->
            IF Same(i) = {} THEN rows[i]
            ELSE without_id(out[CHOOSE k \in Same(i) : TRUE])]

-----------------------------------------------------------------------------
(* Classification, as each row loop computes it *)

\* int((end - start).total_seconds() / 60)
duration_minutes(r) == whole_minutes(end_of(r) - start_of(r))

\* row.get('synthetic') == '1'
is_synth(r) == r.synthetic = "1"

\* any(k in desc_lower for k in keywords)
has_keyword(desc_lower) == \E k \in keywords : contains(desc_lower, k)

\* the keyword test alone
is_real_ice_cut_any_duration(r) == has_keyword(lower(raw_desc(r)))

\* any(k in desc_lower for k in keywords) and duration_minutes <= 20
is_real_ice_cut(r) ==
    /\ has_keyword(lower(raw_desc(r)))
    /\ duration_minutes(r) =< 20

is_ice_cut(r) == is_synth(r) \/ is_real_ice_cut(r)

\* "ICE CUT?" if is_synth else ("ICE CUT" if is_real_ice_cut else raw_desc)
shown_desc(r) ==
    IF is_synth(r) THEN IceCutQText
    ELSE IF is_real_ice_cut(r) THEN IceCutText ELSE raw_desc(r)

\* (r.get("best_desc") or r.get("desc") or "")
ice_desc(r) == IF r.best_desc # <<>> THEN r.best_desc ELSE r.desc

\* the test of the ice_real loop of csv_to_ics
ice_real_selects(r) ==
    /\ has_keyword(lower(ice_desc(r)))
    /\ duration_minutes(r) =< 20

\* ice_real in csv_to_ics: the rows with a keyword and a short duration
RECURSIVE ice_real_of(_)
ice_real_of(rows) ==
    IF rows = <<>> THEN <<>>
    ELSE IF ice_real_selects(Head(rows))
         THEN <<Head(rows)>> \o ice_real_of(Tail(rows))
         ELSE ice_real_of(Tail(rows))

-----------------------------------------------------------------------------
(* Colours: the foreground chosen for a row's background *)

HexDigits == <<"0","1","2","3","4","5","6","7","8","9",
               "a","b","c","d","e","f">>

\* the characters int(s, 16) reads as digits, in either case
HexChars == {HexDigits[i] : i \in 1..16} \cup {UpperCase[i] : i \in 1..6}

\* the value of each digit
HexValue ==
    [c \in HexChars |-> (CHOOSE i \in 1..16 : HexDigits[i] = lower_char(c)) - 1]

is_hex(c) == c \in HexChars

hex_value(c) == HexValue[c]

\* s[a:b]: a Python slice, cut at the end of the string
slice(s, a, b) == SubSeq(s, a + 1, IF b < Len(s) THEN b ELSE Len(s))

\* int(s, 16) drops the blanks around s and reads one optional sign
int16_body(s) ==
    LET t == strip(s)
    IN  IF t # <<>> /\ t[1] \in {"+", "-"} THEN Tail(t) ELSE t

\* int(s, 16) raises ValueError: what is left is not a run of one or more
\* hex digits (no underscore and no 0x prefix fits in two characters)
int16_raises(s) ==
    LET d == int16_body(s)
    IN  d = <<>> \/ \E i \in 1..Len(d) : ~is_hex(d[i])

RECURSIVE hex_number(_)
hex_number(d) ==
    IF d = <<>> THEN 0
    ELSE 16 * hex_number(SubSeq(d, 1, Len(d) - 1)) + hex_value(d[Len(d)])

\* int(s, 16)
int16(s) ==
    LET t == strip(s)
    IN  IF t # <<>> /\ t[1] = "-" THEN -hex_number(int16_body(s))
        ELSE hex_number(int16_body(s))

\* The channels for which 0.299*r + 0.587*g + 0.114*b, computed in binary
\* double precision, is 139.99999999999997 although the exact sum is 140.
\* For every other triple of 8-bit channels the double sum lies on the same
\* side of 140 as the exact sum.
RoundsBelow ==
    { <<16,222,43>>, <<20,212,84>>, <<31,213,50>>, <<35,203,91>>,
      <<46,204,57>>, <<61,195,64>>, <<72,196,30>>, <<76,186,71>>,
      <<87,187,37>>, <<102,178,44>>, <<113,179,10>>, <<117,169,51>>,
      <<128,170,17>>, <<132,160,58>>, <<143,161,24>>, <<158,152,31>>,
      <<173,143,38>>, <<184,144,4>>, <<199,135,11>>, <<214,126,18>>,
      <<215,95,175>> }

\* (0.299*r + 0.587*g + 0.114*b) < 140, as the interpreter evaluates it
luminance_below(r, g, b) ==
    \/ 299 * r + 587 * g + 114 * b < 140 * 1000
    \/ <<r, g, b>> \in RoundsBelow

\* bg.lstrip("#"): every leading '#' is removed
RECURSIVE lstrip_hash(_)
lstrip_hash(s) ==
    IF s # <<>> /\ Head(s) = "#" THEN lstrip_hash(Tail(s)) ELSE s

\* "".join(c*2 for c in bg)
RECURSIVE double_chars(_)
double_chars(s) ==
    IF s = <<>> THEN <<>>
    ELSE <<Head(s), Head(s)>> \o double_chars(Tail(s))

\* text_color: the early return of "black"
text_color_rejects(bg) ==
    bg = <<>> \/ Head(bg) # "#" \/ Len(bg) \notin {4, 7}

\* text_color: bg after lstrip and the doubling of a 3-character string
text_color_digits(bg) ==
    LET d == lstrip_hash(bg)
    IN  IF Len(d) = 3 THEN double_chars(d) ELSE d

\* text_color raises ValueError: one of the three int(.., 16) does
text_color_raises(bg) ==
    /\ ~text_color_rejects(bg)
    /\ LET d == text_color_digits(bg)
       IN  \/ int16_raises(slice(d, 0, 2))
           \/ int16_raises(slice(d, 2, 4))
           \/ int16_raises(slice(d, 4, 6))

\* text_color(bg) of generate_html and of generate_display_html, when it
\* returns
text_color(bg) ==
    IF text_color_rejects(bg) THEN "black"
    ELSE LET d == text_color_digits(bg)
         IN  IF luminance_below(int16(slice(d, 0, 2)),
                                int16(slice(d, 2, 4)),
                                int16(slice(d, 4, 6)))
             THEN "white" ELSE "black"

\* the page build of generate_display_multi_html raises ValueError: one of
\* int(color[i:i+2], 16) for i in (1, 3, 5) does
multi_fg_raises(color) ==
    \/ int16_raises(slice(color, 1, 3))
    \/ int16_raises(slice(color, 3, 5))
    \/ int16_raises(slice(color, 5, 7))

\* fg of the page build of generate_display_multi_html, when it is computed
multi_fg(color) ==
    IF luminance_below(int16(slice(color, 1, 3)),
                       int16(slice(color, 3, 5)),
                       int16(slice(color, 5, 7)))
    THEN "white" ELSE "black"

GreyText == HashText \o <<"c","c","c","c","c","c">>

NoStyle == [background |-> <<>>, color |-> "none"]
Style(bg, fg) == [background |-> bg, color |-> fg]

\* color = row.get('et_color', '').strip()
color_of(r) == strip(r.et_color)

\* the row loop raises ValueError while it chooses row_style
style_raises(v, r) ==
    /\ ~is_ice_cut(r)
    /\ IF v = "multi" THEN color_of(r) # <<>> /\ multi_fg_raises(color_of(r))
       ELSE IF v = "display"
            THEN color_of(r) # <<>> /\ text_color_raises(color_of(r))
            ELSE text_color_raises(color_of(r))

\* the colour coding with the keyword test ahead of the synthetic flag
row_style_keyword_first(v, r) ==
    IF is_real_ice_cut(r) THEN Style(GreyText, "black")
    ELSE IF is_synth(r) THEN Style(SynthColor, "black")
    ELSE IF color_of(r) = <<>> THEN NoStyle
    ELSE IF v = "multi" THEN Style(color_of(r), multi_fg(color_of(r)))
    ELSE Style(color_of(r), text_color(color_of(r)))

\* row_style of the row loop of page v: background and foreground
row_style(v, r) ==
    IF is_synth(r) THEN Style(SynthColor, "black")
    ELSE IF is_real_ice_cut(r) THEN Style(GreyText, "black")
    ELSE IF color_of(r) = <<>> THEN NoStyle
    ELSE IF v = "multi" THEN Style(color_of(r), multi_fg(color_of(r)))
    ELSE Style(color_of(r), text_color(color_of(r)))

-----------------------------------------------------------------------------
(* The NOW logic of the three row loops *)

\* the first branch with start < now in place of start <= now
html_is_current_after_start(r, t) ==
    start_of(r) < t /\ t =< end_of(r) /\ ~is_ice_cut(r)

\* generate_html: the first branch (the row is in progress)
html_is_current(r, t) ==
    start_of(r) =< t /\ t =< end_of(r) /\ ~is_ice_cut(r)

\* the elif branch without `not future_now_marked`
html_is_next_unflagged(r, t, marked) ==
    /\ ~html_is_current(r, t)
    /\ start_of(r) > t /\ ~is_ice_cut(r)

\* generate_html: the elif branch (the first row still to come)
html_is_next(r, t, marked) ==
    /\ ~html_is_current(r, t)
    /\ start_of(r) > t /\ ~marked /\ ~is_ice_cut(r)

\* generate_display_html: the first branch
display_is_current(r, t) ==
    start_of(r) =< t /\ t =< end_of(r) /\ ~is_ice_cut(r)

\* the elif branch without `not is_icecut`
display_is_next_any_category(r, t, marked) ==
    /\ ~display_is_current(r, t)
    /\ start_of(r) > t /\ ~marked

\* generate_display_html: the elif branch
display_is_next(r, t, marked) ==
    /\ ~display_is_current(r, t)
    /\ start_of(r) > t /\ ~marked /\ ~is_ice_cut(r)

\* render(): the first branch; ev.is_icecut was computed when the page was built
render_is_current(r, t) ==
    start_of(r) =< t /\ t =< end_of(r) /\ ~is_ice_cut(r)

\* render(): the else-if branch
render_is_next(r, t, marked) ==
    /\ ~render_is_current(r, t)
    /\ start_of(r) > t /\ ~marked /\ ~is_ice_cut(r)

\* the day filter alone, without `if end < now: continue`
display_skips_other_day(r, t) == date_of(start_of(r)) # date_of(t)

\* generate_display_html: the two `continue` tests of the row loop
display_skips(r, t) ==
    end_of(r) < t \/ date_of(start_of(r)) # date_of(t)

\* render(): the two `continue` tests of the row loop
render_skips(r, t, day) ==
    \/ date_of(start_of(r)) # date_of(t) + day
    \/ (day = 0 /\ end_of(r) < t)

\* the NOW logic of render() without `if (selectedDay === 0)`
render_is_now_any_day(r, t, day, marked) ==
    render_is_current(r, t) \/ render_is_next(r, t, marked)

\* render(): isNow
render_is_now(r, t, day, marked) ==
    /\ day = 0
    /\ render_is_current(r, t) \/ render_is_next(r, t, marked)

\* one rendered row: the position of its event in events, the mark, the
\* category the loop gave the row, the title shown and the style of the row
rendered(i, r, is_now) ==
    [i |-> i, is_now |-> is_now, is_icecut |-> is_ice_cut(r),
     desc |-> shown_desc(r), style |-> row_style(view, r)]

\* the positions of the rows a pass has marked
marks(rows) == { rows[k].i : k \in { j \in 1..Len(rows) : rows[j].is_now } }

-----------------------------------------------------------------------------
(* csv_to_ics: reading the rows and building the synthetic ice cuts *)

Pages == {"all", "rink", "locker", "room", "icecut"}

\* the list csv_to_ics hands to generate_html for each page
page_events(page) ==
    CASE page = "all"    -> all_rows \o synthetic
      [] page = "rink"   -> filter_resource(all_rows, "1") \o synthetic
      [] page = "locker" -> filter_resource(all_rows, "2")
      [] page = "room"   -> filter_resource(all_rows, "3")
      [] page = "icecut" -> ice_real_of(all_rows) \o synthetic

None == "none"

\* RINK_NAMES.get(row.get('resource_id'), 'Aerodrome')
location_of(res) ==
    CASE res = "1" -> "Ice Rink"
      [] res = "2" -> "Locker Room"
      [] res = "3" -> "Room Rental"
      [] OTHER     -> "Aerodrome"

\* add_event raises ValueError: the start or the end of the row does not parse
add_event_raises(r) == ~parses(r.start) \/ ~parses(r.end)

\* the Event that add_event builds from a row
vevent(r) ==
    [summary     |-> raw_desc(r),
     dtstart     |-> start_of(r),
     dtend       |-> end_of(r),
     location    |-> location_of(r.resource_id),
     description |-> r.description]

\* the component put before the others of the calendar
add_event_first(feed, r) == <<vevent(r)>> \o feed

\* cal.add_component(event)
add_event(feed, r) == Append(feed, vevent(r))

\* the calendars after the try block of the reader loop has run for a row
cal_after(r) ==
    [all    |-> add_event(cal.all, r),
     rink   |-> IF r.resource_id = "1" THEN add_event(cal.rink, r)
                ELSE cal.rink,
     locker |-> IF r.resource_id = "2" THEN add_event(cal.locker, r)
                ELSE cal.locker,
     room   |-> IF r.resource_id = "3" THEN add_event(cal.room, r)
                ELSE cal.room]

\* build_synthetic_icecuts raises ValueError: the sort parses the start of
\* every rink row, the loop parses the end of every rink row but the last
build_synthetic_raises(rows) ==
    LET rink == filter_resource(rows, "1")
    IN  \/ \E i \in 1..Len(rink) : ~parses(rink[i].start)
        \/ LET s == sorted_by_start(rink)
           IN  \E i \in 1..(Len(s) - 1) : ~parses(s[i].end)

\* the ice_real loop raises ValueError: it parses both ends of every row
ice_real_raises(rows) ==
    \E i \in 1..Len(rows) : ~parses(rows[i].start) \/ ~parses(rows[i].end)

\* an exception leaves the running function and csv_to_ics: the run is over
raise(exc) ==
    /\ pc' = "raised"
    /\ error' = exc
    /\ UNCHANGED <<all_rows, synthetic, view, selectedDay, events, idx, now,
                   future_now_marked, html, prev_marks, cal, outputs,
                   subheader>>

\* prev_marks before any pass has been repeated, and after
NoPass == [seen |-> FALSE, marks |-> {}]
Seen(m) == [seen |-> TRUE, marks |-> m]

\* prev_marks in a pass that follows the pass of another page
After(m) == [seen |-> FALSE, marks |-> m]

Init ==
    /\ all_rows = <<>>
    /\ synthetic = <<>>
    /\ pc = "read"
    /\ view = None
    /\ selectedDay = 0
    /\ events = <<>>
    /\ idx = 1
    /\ now = 0
    /\ future_now_marked = FALSE
    /\ html = <<>>
    /\ prev_marks = NoPass
    /\ cal = [all |-> <<>>, rink |-> <<>>, locker |-> <<>>, room |-> <<>>]
    /\ outputs = <<>>
    /\ error = None
    /\ subheader = None

\* for row in reader: all_rows.append(row), then the try block: add_event
\* to cal_all and to the calendar of the resource, or "Skipping row"
ReadRow(r, limit) ==
    /\ pc = "read"
    /\ Len(all_rows) < limit
    /\ all_rows' = Append(all_rows, r)
    /\ cal' = IF add_event_raises(r) THEN cal ELSE cal_after(r)
    /\ UNCHANGED <<synthetic, pc, view, selectedDay, events, idx, now,
                   future_now_marked, html, prev_marks, outputs, error,
                   subheader>>

\* synthetic = build_synthetic_icecuts(all_rows), then the ice_real loop and
\* ice_page = ice_real + synthetic
BuildSynthetic ==
    /\ pc = "read"
    /\ IF build_synthetic_raises(all_rows) \/ ice_real_raises(all_rows)
       THEN raise("ValueError")
       ELSE /\ synthetic' = build_synthetic_icecuts(all_rows)
            /\ pc' = "pages"
            /\ UNCHANGED <<all_rows, view, selectedDay, events, idx, now,
                           future_now_marked, html, prev_marks, run_state,
                           subheader>>

-----------------------------------------------------------------------------
(* The passes *)

Loops == {"html_loop", "display_loop", "render_loop"}

\* the row loop of the running pass has ended and the page is about to be
\* written
PassDone == pc \in Loops /\ idx > Len(events)

\* the start of a row loop, were the flag kept from one call to the next
begin_pass_keeping_flag(v, day, evs, t, loop) ==
    /\ view' = v
    /\ selectedDay' = day
    /\ events' = evs
    /\ now' = t
    /\ future_now_marked' = future_now_marked
    /\ html' = <<>>
    /\ idx' = 1
    /\ pc' = loop
    /\ UNCHANGED run_state

\* the locals of a generate function at the start of its row loop: its own
\* flag, its own now, its own sorted copy of the events, an empty page
begin_pass(v, day, evs, t, loop) ==
    /\ view' = v
    /\ selectedDay' = day
    /\ events' = evs
    /\ now' = t
    /\ future_now_marked' = FALSE
    /\ html' = <<>>
    /\ idx' = 1
    /\ pc' = loop
    /\ UNCHANGED run_state

\* the page is written and the function returns: its locals are gone
end_pass(loop) ==
    /\ pc = loop
    /\ idx > Len(events)
    /\ pc' = "pages"
    /\ view' = None
    /\ selectedDay' = 0
    /\ events' = <<>>
    /\ idx' = 1
    /\ now' = 0
    /\ future_now_marked' = FALSE
    /\ html' = <<>>
    /\ prev_marks' = NoPass
    /\ subheader' = None
    /\ UNCHANGED <<all_rows, synthetic, run_state>>

\* one iteration of a row loop that renders the row
render_row(is_now) ==
    /\ html' = Append(html, rendered(idx, events[idx], is_now))
    /\ future_now_marked' = (future_now_marked \/ is_now)
    /\ idx' = idx + 1
    /\ UNCHANGED <<all_rows, synthetic, pc, view, selectedDay, events, now,
                   prev_marks, run_state, subheader>>

\* one iteration of a row loop that skips the row (continue)
skip_row ==
    /\ idx' = idx + 1
    /\ UNCHANGED <<all_rows, synthetic, pc, view, selectedDay, events, now,
                   future_now_marked, html, prev_marks, run_state, subheader>>

\* events = sorted(events, ...) at the top of generate_html
html_events(page) == sorted_by_start(page_events(page))

\* events = merge_concurrent_events(events); events = sorted(events, ...)
\* at the top of generate_display_html and generate_display_multi_html
display_events ==
    sorted_by_start(merge_concurrent_events(all_rows \o synthetic))

\* the rows of csv_to_ics after a generate function has been given
\* all_rows + synthetic, a new list of the same row objects
rows_become(after) ==
    /\ all_rows' = SubSeq(after, 1, Len(all_rows))
    /\ synthetic' = SubSeq(after, Len(all_rows) + 1, Len(after))

\* generate_html up to its row loop; the function sorts into a new list and
\* only reads the rows
GenerateHtml(page, t) ==
    /\ pc = "pages"
    /\ begin_pass(page, 0, html_events(page), t, "html_loop")
    /\ prev_marks' = NoPass
    /\ subheader' = None
    /\ UNCHANGED <<all_rows, synthetic>>

\* generate_html: one iteration of `for row in events`
HtmlRow ==
    /\ pc = "html_loop"
    /\ idx =< Len(events)
    /\ LET row == events[idx]
       IN  IF style_raises(view, row) THEN raise("ValueError")
           ELSE render_row(/\ date_of(start_of(row)) = date_of(now)
                           /\ \/ html_is_current(row, now)
                              \/ html_is_next(row, now, future_now_marked))

HtmlDone == end_pass("html_loop")

\* generate_display_html up to its row loop: the page head reads the clock
\* for its "Today" line (t0), and the clock is read again for now (t)
GenerateDisplayHtml(t0, t) ==
    /\ pc = "pages"
    /\ t0 =< t
    /\ begin_pass("display", 0, display_events, t, "display_loop")
    /\ prev_marks' = NoPass
    /\ subheader' = date_of(t0)
    /\ rows_become(rows_after_merge(all_rows \o synthetic))

\* generate_display_html: one iteration of `for row in events`
DisplayRow ==
    /\ pc = "display_loop"
    /\ idx =< Len(events)
    /\ LET row == events[idx]
       IN  IF display_skips(row, now)
           THEN skip_row
           ELSE IF style_raises(view, row) THEN raise("ValueError")
           ELSE render_row(\/ display_is_current(row, now)
                           \/ display_is_next(row, now, future_now_marked))

DisplayDone == end_pass("display_loop")

\* the page build of generate_display_multi_html (the loop that fills
\* `out`), and render() up to its loop when a page holding these events is
\* opened with ?day=day
Render(day, t) ==
    /\ pc = "pages"
    /\ LET evs == display_events
       IN  IF \E i \in 1..Len(evs) : style_raises("multi", evs[i])
           THEN raise("ValueError")
           ELSE /\ begin_pass("multi", day, evs, t, "render_loop")
                /\ prev_marks' = NoPass
                /\ subheader' = None
                /\ rows_become(rows_after_merge(all_rows \o synthetic))

\* render(): one iteration of `for (const ev of events)`
RenderRow ==
    /\ pc = "render_loop"
    /\ idx =< Len(events)
    /\ LET row == events[idx]
       IN  IF render_skips(row, now, selectedDay)
           THEN skip_row
           ELSE render_row(render_is_now(row, now, selectedDay,
                                         future_now_marked))

RenderDone == end_pass("render_loop")

\* The same page is generated once more from the same rows while the clock
\* still reads the same instant; prev_marks keeps what the first pass marked.
RenderAgain ==
    /\ PassDone
    /\ prev_marks = NoPass
    /\ begin_pass(view, selectedDay,
                  IF pc = "html_loop" THEN html_events(view)
                  ELSE display_events,
                  now, pc)
    /\ prev_marks' = Seen(marks(html))
    /\ subheader' = subheader
    /\ IF pc = "html_loop" THEN UNCHANGED <<all_rows, synthetic>>
       ELSE rows_become(rows_after_merge(all_rows \o synthetic))

-----------------------------------------------------------------------------
(* The inputs *)

\* 10:00:00 AM on the second day of the model's calendar
TenAM == SecondsPerDay + 10 * 3600

TextX        == <<"X">>
TextY        == <<"Y">>
TextYPadded  == <<"Y"," ">>
TextIceCut   == <<"I","c","e"," ","C","u","t">>
TextTeamA    == <<"T","e","a","m"," ","A">>
TextPractice == TextTeamA \o <<" ","P","r","a","c","t","i","c","e">>
TextScrimmage == TextTeamA \o <<" "," ","S","c","r","i","m","m","a","g","e">>
ColorGreen   == HashText \o <<"2","f","6","2","4","3">>
ColorWhite   == HashText \o <<"f","f","f","f","f","f">>

\* Rows for the row loops: two starts 20 minutes apart, a short and a long
\* duration, a rink event, a rink ice cut and a locker-room event, and one
\* rink event on the next day.  A short rink event at 10:00 and a rink
\* event at 10:20 leave a 10-minute gap.
LoopRows ==
    { Row(TenAM + s, TenAM + s + d, k.best, k.desc, k.res, k.color, k.descr) :
        s \in {0, 20 * 60}, d \in {10 * 60, 30 * 60},
        k \in { [best |-> TextX, desc |-> <<>>, res |-> "1",
                 color |-> ColorGreen, descr |-> "rink"],
                [best |-> <<>>, desc |-> TextIceCut, res |-> "1",
                 color |-> <<>>, descr |-> "cut"],
                [best |-> TextY, desc |-> TextX, res |-> "2",
                 color |-> ColorWhite, descr |-> "locker"] } }
    \cup { Row(TenAM + SecondsPerDay, TenAM + SecondsPerDay + 10 * 60,
               TextX, <<>>, "1", ColorGreen, "rink") }

\* The instants at which a pass of these rows is rendered
LoopNows ==
    { TenAM + d : d \in {-60, 0, 10 * 60, 15 * 60, 20 * 60, 30 * 60,
                         50 * 60 + 1, SecondsPerDay} }

Days == {0, 1}

ReadLoopRow == \E r \in LoopRows : ReadRow(r, MaxRows)
StartHtml == \E page \in Pages, t \in LoopNows : GenerateHtml(page, t)
StartDisplay == \E t0, t \in LoopNows : GenerateDisplayHtml(t0, t)
StartRender == \E day \in Days, t \in LoopNows : Render(day, t)

Next ==
    \/ ReadLoopRow
    \/ BuildSynthetic
    \/ StartHtml
    \/ HtmlRow
    \/ HtmlDone
    \/ StartDisplay
    \/ DisplayRow
    \/ DisplayDone
    \/ StartRender
    \/ RenderRow
    \/ RenderDone
    \/ RenderAgain

Spec == Init /\ [][Next]_vars

-----------------------------------------------------------------------------
(* Inputs for the gaps: rink events one minute long whose starts leave gaps  *)
(* of 5:00, 5:01, 9:59, 10:00 and 10:01 after an earlier end, rink events    *)
(* long enough to overlap the later ones, and locker-room events.            *)

GapStarts == {0, 360, 361, 660, 661, 1020, 1021}

GapRows ==
    { Row(TenAM + s, TenAM + s + 60, TextX, <<>>, res, ColorGreen, "short") :
        s \in GapStarts, res \in {"1", "2"} }
    \cup { Row(TenAM + s, TenAM + s + 700, TextX, <<>>, "1", ColorGreen, "long") :
        s \in GapStarts }

ReadGapRow == \E r \in GapRows : ReadRow(r, MaxGapRows)

NextGap ==
    \/ ReadGapRow
    \/ BuildSynthetic

SpecGap == Init /\ [][NextGap]_vars

-----------------------------------------------------------------------------
(* Inputs for the merge: two starts, titles that share a prefix of words,  *)
(* share none, or carry blanks, and two durations for the titles that      *)
(* share a prefix.                                                         *)

MergeRows ==
    { Row(TenAM + s, TenAM + s + d, k.best, k.desc, k.res, k.color, k.descr) :
        s \in {0, 20 * 60}, d \in {10 * 60, 30 * 60},
        k \in { [best |-> TextPractice, desc |-> TextX, res |-> "1",
                 color |-> ColorGreen, descr |-> "practice"],
                [best |-> <<>>, desc |-> TextScrimmage, res |-> "2",
                 color |-> ColorWhite, descr |-> "scrimmage"] } }
    \cup
    { Row(TenAM + s, TenAM + s + 10 * 60, k.best, <<>>, k.res, <<>>, k.descr) :
        s \in {0, 20 * 60},
        k \in { [best |-> TextX, res |-> "1", descr |-> "x"],
                [best |-> TextYPadded, res |-> "3", descr |-> "y"] } }

MergeNows == { TenAM + 5 * 60 }

ReadMergeRow == \E r \in MergeRows : ReadRow(r, MaxMergeRows)
StartMergedDisplay == \E t0, t \in MergeNows : GenerateDisplayHtml(t0, t)

NextMerge ==
    \/ ReadMergeRow
    \/ BuildSynthetic
    \/ StartMergedDisplay
    \/ DisplayRow
    \/ DisplayDone

SpecMerge == Init /\ [][NextMerge]_vars

-----------------------------------------------------------------------------
(* csv_to_ics from the writing of the calendars to its last statement.  Here *)
(* a call of a generate function is one step: it writes its file or raises.  *)

FeedFiles == <<"facility.ics", "facility_rink.ics", "facility_locker.ics",
               "facility_room.ics">>

\* the five calls of generate_html, in the order of the statements
PageOrder == <<"all", "rink", "locker", "room", "icecut">>

page_file(page) ==
    CASE page = "all"    -> "facility.html"
      [] page = "rink"   -> "facility_rink.html"
      [] page = "locker" -> "facility_locker.html"
      [] page = "room"   -> "facility_room.html"
      [] page = "icecut" -> "facility_icecut.html"

DisplayFiles == <<"display_multi.html", "facility_display.html">>

\* the names the module binds: its imports, constants and functions
ModuleNames ==
    {"csv", "datetime", "timedelta", "Calendar", "Event", "zoneinfo",
     "RINK_NAMES", "LOCAL_TZID", "LOCAL_TZ", "parse_datetime",
     "make_calendar", "add_event", "build_synthetic_icecuts",
     "merge_concurrent_events", "generate_html", "generate_display_html",
     "generate_display_multi_html", "csv_to_ics"}

\* the names csv_to_ics has bound when it reaches its last two statements
LocalNames ==
    {"csv_path", "tzid", "cal_all", "cal_rink", "cal_locker", "cal_room",
     "all_rows", "csvfile", "reader", "row", "resource", "synthetic",
     "ice_real", "r", "start", "end", "duration", "desc", "ice_page", "f"}

\* with open(...) as f: f.write(cal.to_ical()), four times
WriteFeeds ==
    /\ pc = "pages"
    /\ outputs = <<>>
    /\ outputs' = FeedFiles
    /\ UNCHANGED <<all_rows, synthetic, pc, view, selectedDay, events, idx,
                   now, future_now_marked, html, prev_marks, cal, error,
                   subheader>>

\* the k-th call of generate_html: the row loop raises at the first row
\* whose style cannot be computed, otherwise the page is written
CallGenerateHtml(k) ==
    /\ pc = "pages"
    /\ Len(outputs) = Len(FeedFiles) + k - 1
    /\ LET page == PageOrder[k]
           evs  == html_events(page)
       IN  IF \E i \in 1..Len(evs) : style_raises(page, evs[i])
           THEN raise("ValueError")
           ELSE /\ outputs' = Append(outputs, page_file(page))
                /\ UNCHANGED <<all_rows, synthetic, pc, view, selectedDay,
                               events, idx, now, future_now_marked, html,
                               prev_marks, cal, error, subheader>>

\* generate_display_multi_html("display_multi.html", all_rows +
\* synthetic_rows) and generate_display_html(...): the argument of the first
\* call names synthetic_rows, and the first function names json
CallDisplays ==
    /\ pc = "pages"
    /\ Len(outputs) = Len(FeedFiles) + Len(PageOrder)
    /\ LET evs == display_events
       IN  IF "synthetic_rows" \notin LocalNames \cup ModuleNames
           THEN raise("NameError")
           ELSE IF \E i \in 1..Len(evs) : style_raises("multi", evs[i])
           THEN raise("ValueError")
           ELSE IF "json" \notin ModuleNames
           THEN raise("NameError")
           ELSE IF \E i \in 1..Len(evs) : style_raises("display", evs[i])
           THEN /\ pc' = "raised"
                /\ error' = "ValueError"
                /\ outputs' = Append(outputs, DisplayFiles[1])
                /\ UNCHANGED <<all_rows, synthetic, view, selectedDay, events,
                               idx, now, future_now_marked, html, prev_marks,
                               cal, subheader>>
           ELSE /\ pc' = "done"
                /\ outputs' = outputs \o DisplayFiles
                /\ UNCHANGED <<all_rows, synthetic, view, selectedDay, events,
                               idx, now, future_now_marked, html, prev_marks,
                               cal, error, subheader>>

\* a timestamp that strptime rejects: the hour 00 with AM
BadStamp == [date |-> 1, hour |-> 0, minute |-> 0, second |-> 0, pm |-> FALSE]

ColorBadHex == HashText \o <<"g","g","g","g","g","g">>

\* Rows for the run: rink events that leave a 10-minute gap, events of the
\* four kinds of resource that start together, an ice cut, an event whose
\* colour is not hexadecimal, and rows whose start or end does not parse.
RunRows ==
    { Row(TenAM, TenAM + 10 * 60, TextX, <<>>, "1", ColorGreen, "rink"),
      Row(TenAM + 20 * 60, TenAM + 50 * 60, TextY, <<>>, "1", ColorGreen,
          "rink"),
      Row(TenAM, TenAM + 10 * 60, <<>>, TextIceCut, "1", <<>>, "cut"),
      Row(TenAM, TenAM + 30 * 60, TextY, TextX, "2", ColorWhite, "locker"),
      Row(TenAM, TenAM + 30 * 60, TextTeamA, <<>>, "3", <<>>, "room"),
      Row(TenAM, TenAM + 30 * 60, <<>>, <<>>, "4", ColorGreen, "other"),
      Row(TenAM, TenAM + 30 * 60, TextX, <<>>, "2", ColorBadHex, "colour"),
      [Row(TenAM, TenAM + 30 * 60, TextX, <<>>, "1", ColorGreen, "bad")
          EXCEPT !.start = BadStamp],
      [Row(TenAM, TenAM + 30 * 60, TextX, <<>>, "1", ColorGreen, "bad")
          EXCEPT !.end = BadStamp],
      [Row(TenAM, TenAM + 30 * 60, TextY, <<>>, "2", ColorWhite, "bad")
          EXCEPT !.end = BadStamp] }

ReadRunRow == \E r \in RunRows : ReadRow(r, MaxRunRows)
CallHtml == \E k \in 1..Len(PageOrder) : CallGenerateHtml(k)

NextRun ==
    \/ ReadRunRow
    \/ BuildSynthetic
    \/ WriteFeeds
    \/ CallHtml
    \/ CallDisplays

SpecRun == Init /\ [][NextRun]_vars

-----------------------------------------------------------------------------
(* The static pages one after the other, as csv_to_ics generates them: each  *)
(* call of generate_html returns and the next call starts, at the same       *)
(* instant or later.  prev_marks keeps what the page before has marked.      *)

\* the position of a page in the order of the calls
page_index(page) == CHOOSE k \in 1..Len(PageOrder) : PageOrder[k] = page

\* generate_html returns, and csv_to_ics calls it for the next page
FollowingHtml(t) ==
    /\ PassDone
    /\ pc = "html_loop"
    /\ page_index(view) < Len(PageOrder)
    /\ t >= now
    /\ LET page == PageOrder[page_index(view) + 1]
       IN  begin_pass(page, 0, html_events(page), t, "html_loop")
    /\ prev_marks' = After(marks(html))
    /\ subheader' = None
    /\ UNCHANGED <<all_rows, synthetic>>

SeqRows ==
    { Row(TenAM, TenAM + 10 * 60, TextX, <<>>, "1", ColorGreen, "rink"),
      Row(TenAM + 20 * 60, TenAM + 50 * 60, TextY, <<>>, "1", ColorGreen,
          "rink"),
      Row(TenAM, TenAM + 10 * 60, <<>>, TextIceCut, "1", <<>>, "cut"),
      Row(TenAM, TenAM + 30 * 60, TextY, TextX, "2", ColorWhite, "locker"),
      Row(TenAM + 20 * 60, TenAM + 30 * 60, TextY, <<>>, "2", ColorWhite,
          "locker"),
      Row(TenAM, TenAM + 30 * 60, TextTeamA, <<>>, "3", <<>>, "room") }

SeqNows == {TenAM + 5 * 60, TenAM + 25 * 60}

ReadSeqRow == \E r \in SeqRows : ReadRow(r, MaxSeqRows)
StartFirstHtml == \E page \in Pages, t \in SeqNows : GenerateHtml(page, t)
StartFollowingHtml == \E t \in SeqNows : FollowingHtml(t)

NextSeq ==
    \/ ReadSeqRow
    \/ BuildSynthetic
    \/ StartFirstHtml
    \/ HtmlRow
    \/ HtmlDone
    \/ StartFollowingHtml

SpecSeq == Init /\ [][NextSeq]_vars

-----------------------------------------------------------------------------
(* Inputs for the styles: one event in progress for each background, among  *)
(* them the empty string, a colour name, strings of the wrong length, digits *)
(* that are not hexadecimal, shorthands, blanks around the colour, and the   *)
(* colours on both sides of the luminance 140; and an ice cut, whose         *)
(* background is never read.                                                 *)

Hex(a, b, c, d, e, f) == HashText \o <<a, b, c, d, e, f>>

StyleColors ==
    { <<>>,
      <<"b","l","u","e">>,
      HashText \o <<"1","2">>,
      ColorBadHex,
      HashText \o <<"g","g","g">>,
      HashText \o HashText \o <<"1","2","3","4","5">>,
      Hex("0","0","0","0","0","0"),
      Hex("F","F","F","F","F","F"),
      HashText \o <<"f","f","f">>,
      HashText \o <<"0","0","0">>,
      <<" ">> \o HashText \o <<"f","f","f"," ">>,
      ColorGreen,
      Hex("8","b","8","b","8","b"),
      Hex("8","c","8","c","8","c"),
      Hex("0","c","e","8","0","2"),
      Hex("1","0","d","e","2","b"),
      Hex("d","7","5","f","a","f") }

StyleRows ==
    { Row(TenAM, TenAM + 30 * 60, TextX, <<>>, "1", c, "rink") :
        c \in StyleColors }
    \cup { Row(TenAM, TenAM + 10 * 60, TextIceCut, <<>>, "1", ColorBadHex,
               "cut") }

StyleNows == {TenAM + 5 * 60}

ReadStyleRow == \E r \in StyleRows : ReadRow(r, MaxStyleRows)
StartStyledHtml == \E t \in StyleNows : GenerateHtml("all", t)
StartStyledDisplay == \E t0, t \in StyleNows : GenerateDisplayHtml(t0, t)
StartStyledRender == \E day \in Days, t \in StyleNows : Render(day, t)

NextStyle ==
    \/ ReadStyleRow
    \/ BuildSynthetic
    \/ StartStyledHtml
    \/ HtmlRow
    \/ HtmlDone
    \/ StartStyledDisplay
    \/ DisplayRow
    \/ DisplayDone
    \/ StartStyledRender
    \/ RenderRow
    \/ RenderDone

SpecStyle == Init /\ [][NextStyle]_vars

-----------------------------------------------------------------------------
(* The claims about the NOW logic, checked under Spec *)

\* the maintenance category as the specification words it: a synthetic gap
\* event, or a keyword in the lower-cased title and at most 20 whole minutes
Maintenance(r) ==
    \/ r.synthetic = "1"
    \/ /\ LET title == lower(raw_desc(r))
          IN  \E k \in keywords : contains(title, k)
       /\ end_of(r) - start_of(r) < 21 * 60

Today(r) == date_of(start_of(r)) = date_of(now)
Contains(r, t) == start_of(r) =< t /\ t =< end_of(r)

\* a pass that runs the NOW logic has ended: the static list, the rolling
\* display, or the paged display opened on the day of now
NowPassDone == PassDone /\ selectedDay = 0

\* the events of the target day that are not maintenance and contain now
InProgress ==
    { i \in 1..Len(events) :
        Today(events[i]) /\ ~Maintenance(events[i]) /\ Contains(events[i], now) }

\* the events of the target day that are not maintenance and start after now
Upcoming ==
    { i \in 1..Len(events) :
        Today(events[i]) /\ ~Maintenance(events[i]) /\ start_of(events[i]) > now }

First(S) == CHOOSE i \in S : \A j \in S : i =< j

\* C1: in any render pass at most one rendered row is marked current/next.
C1_AtMostOneMarked == Cardinality(marks(html)) =< 1

\* C2: no row of an event classified maintenance is ever marked current/next,
\* in any pass and at any point of it.
C2_MaintenanceNeverMarked ==
    \A i \in marks(html) : ~Maintenance(events[i])

C2_Witness ==
    /\ PassDone
    /\ \E k \in 1..Len(html) :
          /\ Maintenance(events[html[k].i])
          /\ Contains(events[html[k].i], now)
    /\ \E i \in 1..Len(events) :
          events[i].synthetic = "1" /\ start_of(events[i]) > now
    /\ marks(html) # {}

\* C3: the pass runs in ascending start order; the first non-maintenance event
\* of the target day that contains now is marked, and then no event that
\* starts after now is marked.
C3_FirstInProgressMarked ==
    NowPassDone =>
        /\ \A i, j \in 1..Len(events) :
              i < j => start_of(events[i]) =< start_of(events[j])
        /\ InProgress # {} =>
              /\ First(InProgress) \in marks(html)
              /\ \A j \in marks(html) : ~(start_of(events[j]) > now)

C3_Witness ==
    /\ NowPassDone
    /\ InProgress # {}
    /\ Upcoming # {}
    /\ First(InProgress) \in marks(html)

\* C4: when no non-maintenance event of the target day contains now, exactly
\* the earliest-starting non-maintenance event of the target day that starts
\* after now is marked, whatever maintenance events come before it, and
\* nothing is marked when there is none.
C4_NextMarked ==
    (NowPassDone /\ InProgress = {}) =>
        IF Upcoming = {} THEN marks(html) = {}
        ELSE /\ marks(html) = {First(Upcoming)}
             /\ \A j \in Upcoming :
                   start_of(events[First(Upcoming)]) =< start_of(events[j])

\* now lies strictly between two non-maintenance events, a synthetic ice cut
\* fills the gap, and the later event is the one marked
C4_Witness ==
    /\ NowPassDone
    /\ InProgress = {}
    /\ \E i, m, j \in 1..Len(events) :
          /\ i < m /\ m < j
          /\ Today(events[i]) /\ ~Maintenance(events[i])
          /\ end_of(events[i]) < now
          /\ events[m].synthetic = "1" /\ Contains(events[m], now)
          /\ start_of(events[j]) > now
          /\ marks(html) = {j}

\* C5: a pass repeated on the same page, from the same rows, at the same now
\* marks the same rows as the pass before it.
C5_RepeatMarksSame ==
    (PassDone /\ prev_marks.seen) => marks(html) = prev_marks.marks

C5_Witness ==
    /\ PassDone
    /\ prev_marks.seen
    /\ marks(html) # {}
    /\ marks(html) = prev_marks.marks

-----------------------------------------------------------------------------
(* The claims about the synthetic ice cuts, checked under SpecGap *)

SynthBuilt == pc = "pages"

\* the rink events in ascending start order
Rink == sorted_by_start(filter_resource(all_rows, "1"))

\* the gap after the i-th rink event, in seconds
GapAfter(i) == start_of(Rink[i + 1]) - end_of(Rink[i])

\* the adjacent pairs whose gap is above 5 minutes and at most 10 minutes
Qualifying ==
    { i \in 1..(Len(Rink) - 1) : 5 * 60 < GapAfter(i) /\ GapAfter(i) =< 10 * 60 }

\* the k-th smallest member of a set of numbers
Kth(S, k) == CHOOSE i \in S : Cardinality({ j \in S : j < i }) = k - 1

\* C6: one synthetic event for each adjacent pair of rink events whose gap is
\* above 5:00 and at most 10:00, from the first event's end to the second
\* event's start, in the order of the pairs, and nothing for any other pair.
C6_OnePerQualifyingGap ==
    SynthBuilt =>
        /\ Len(synthetic) = Cardinality(Qualifying)
        /\ \A k \in 1..Len(synthetic) :
              /\ start_of(synthetic[k]) = end_of(Rink[Kth(Qualifying, k)])
              /\ end_of(synthetic[k]) = start_of(Rink[Kth(Qualifying, k) + 1])

\* three rink events: a gap of exactly 10:00, which yields the one synthetic
\* event, and then a gap of exactly 5:00, which yields none
C6_Witness ==
    /\ SynthBuilt
    /\ Len(Rink) = 3
    /\ GapAfter(1) = 10 * 60
    /\ GapAfter(2) = 5 * 60
    /\ Len(synthetic) = 1

\* C7: every synthetic event lies between the two rink events of an adjacent
\* pair: it starts at the first one's end, ends no later than the second
\* one's start, and starts before it ends.
C7_BetweenItsPair ==
    SynthBuilt =>
        \A k \in 1..Len(synthetic) :
            /\ start_of(synthetic[k]) < end_of(synthetic[k])
            /\ \E i \in 1..(Len(Rink) - 1) :
                  /\ Rink[i].synthetic # "1" /\ Rink[i + 1].synthetic # "1"
                  /\ start_of(synthetic[k]) = end_of(Rink[i])
                  /\ end_of(synthetic[k]) =< start_of(Rink[i + 1])

\* a synthetic event shorter than 10 minutes (a gap of 5:01)
C7_Witness ==
    /\ SynthBuilt
    /\ \E k \in 1..Len(synthetic) :
          end_of(synthetic[k]) - start_of(synthetic[k]) = 5 * 60 + 1

-----------------------------------------------------------------------------
(* The claims about the merge, checked under SpecMerge *)

\* the rolling display has merged its events and is about to loop over them
Merged == pc = "display_loop" /\ idx = 1

\* what generate_display_html hands to merge_concurrent_events
MergeInput == all_rows \o synthetic

\* the input events that start at t, in input order
RunAt(t) == SelectSeq(MergeInput, LAMBDA r : start_of(r) = t)

\* the run an output row stands for
RunOf(row) == RunAt(start_of(row))

Starts(rows) == { start_of(rows[k]) : k \in 1..Len(rows) }

\* C8: the merged sequence is in ascending start order with exactly one row
\* for each start instant of the input, and the row of a start instant that
\* only one input event has is that event, unchanged.
C8_OneRowPerStart ==
    Merged =>
        /\ \A i, j \in 1..Len(events) :
              i < j => start_of(events[i]) < start_of(events[j])
        /\ Starts(events) = Starts(MergeInput)
        /\ \A i \in 1..Len(events) :
              Len(RunOf(events[i])) = 1 => events[i] = RunOf(events[i])[1]

\* two events that start together and end apart are one row, and an event
\* with another start is a row of its own
C8_Witness ==
    /\ Merged
    /\ Len(events) >= 2
    /\ \E i \in 1..Len(events) :
          /\ Len(RunOf(events[i])) = 2
          /\ end_of(RunOf(events[i])[1]) # end_of(RunOf(events[i])[2])

\* the words of the resolved title of each member of a run
Words(run) == [k \in 1..Len(run) |-> split(raw_desc(run[k]))]

\* the first n words are common to all the word lists, and the next is not
LongestCommon(words, n) ==
    /\ \A k \in 1..Len(words) :
          /\ n =< Len(words[k])
          /\ \A m \in 1..n : words[k][m] = words[1][m]
    /\ \/ \E k \in 1..Len(words) : Len(words[k]) = n
       \/ \E k \in 1..Len(words) : words[k][n + 1] # words[1][n + 1]

\* C9: the title of the row of a run of more than one event is the longest
\* common prefix of the members' titles, word by word, joined by blanks, or
\* the first member's title (without surrounding blanks) when they share no
\* first word.
C9_MergedTitle ==
    Merged =>
        \A i \in 1..Len(events) :
            LET run == RunOf(events[i])
                words == Words(run)
            IN  Len(run) > 1 =>
                  /\ events[i].best_desc = events[i].desc
                  /\ \E n \in 0..Len(words[1]) :
                        /\ LongestCommon(words, n)
                        /\ events[i].desc =
                              IF n > 0 THEN join(SubSeq(words[1], 1, n))
                              ELSE strip(raw_desc(run[1]))

\* 'Team A Practice' and 'Team A  Scrimmage' give 'Team A'
C9_Witness ==
    /\ Merged
    /\ \E i \in 1..Len(events) :
          LET run == RunOf(events[i])
          IN  /\ Len(run) = 2
              /\ raw_desc(run[1]) = TextPractice
              /\ raw_desc(run[2]) = TextScrimmage
              /\ events[i].desc = TextTeamA

\* no common first word: 'Y ' and then 'X' give 'Y', the first title stripped
C9_WitnessNoPrefix ==
    /\ Merged
    /\ \E i \in 1..Len(events) :
          LET run == RunOf(events[i])
          IN  /\ Len(run) = 2
              /\ raw_desc(run[1]) = TextYPadded
              /\ raw_desc(run[2]) = TextX
              /\ events[i].desc = TextY

\* what the merge gives for a run
RowFor(run) == IF Len(run) = 1 THEN run[1] ELSE merged_row(run)

\* the fields other than the title are those of the run's first member
FieldsOfFirst(row, run) ==
    /\ row.start = run[1].start
    /\ row.end = run[1].end
    /\ row.resource_id = run[1].resource_id
    /\ row.et_color = run[1].et_color
    /\ row.description = run[1].description
    /\ row.synthetic = run[1].synthetic

\* the number of members can be told from the row: the same run with one
\* member fewer gives another row
SizeRecoverable(row, run) ==
    row # RowFor(SubSeq(run, 1, Len(run) - 1))

\* C10 as claimed: the row of a run of N > 1 events has every field but the
\* title from the first member, and N can be recovered from it.
C10_FieldsAndCount ==
    Merged =>
        \A i \in 1..Len(events) :
            LET run == RunOf(events[i])
            IN  Len(run) > 1 =>
                  /\ FieldsOfFirst(events[i], run)
                  /\ SizeRecoverable(events[i], run)

\* C10 as amended: the row of a run of N > 1 events is the run's first member
\* with nothing but its two title fields replaced; it has the keys of the
\* first member and no other, so it carries no count.
C10_FirstMemberRetitled ==
    Merged =>
        \A i \in 1..Len(events) :
            LET run == RunOf(events[i])
            IN  Len(run) > 1 =>
                  /\ FieldsOfFirst(events[i], run)
                  /\ DOMAIN events[i] = DOMAIN run[1]
                  /\ \A f \in DOMAIN events[i] \ {"desc", "best_desc"} :
                        events[i][f] = run[1][f]

\* a run of three events whose later members differ from the first in end,
\* resource, colour and description
C10_Witness ==
    /\ Merged
    /\ \E i \in 1..Len(events) :
          LET run == RunOf(events[i])
          IN  /\ Len(run) = 3
              /\ \A k \in 2..3 :
                    /\ run[k].end # run[1].end
                    /\ run[k].resource_id # run[1].resource_id
                    /\ run[k].et_color # run[1].et_color
                    /\ run[k].description # run[1].description

-----------------------------------------------------------------------------
(* The claims about the run of csv_to_ics, checked under SpecRun *)

\* both timestamps of the row are well-formed
Parseable(r) ==
    /\ r.start.hour \in 1..12 /\ r.start.minute < 60 /\ r.start.second < 60
    /\ r.end.hour \in 1..12 /\ r.end.minute < 60 /\ r.end.second < 60

\* the rows of the input that parse and, for res # "", belong to res
FeedRows(res) ==
    LET Keep(r) == Parseable(r) /\ (res = "" \/ r.resource_id = res)
    IN  SelectSeq(all_rows, Keep)

\* the feed is the list of the entries of these rows, one for each, in
\* their order
Mirrors(feed, rows) ==
    /\ Len(feed) = Len(rows)
    /\ \A i \in 1..Len(rows) :
          /\ feed[i].summary = raw_desc(rows[i])
          /\ feed[i].dtstart = start_of(rows[i])
          /\ feed[i].dtend = end_of(rows[i])
          /\ feed[i].description = rows[i].description

\* C11: every input row with parseable timestamps has exactly one entry in
\* the all-events feed and, when its resource is 1, 2 or 3, exactly one in
\* the feed of its resource, in input order; the feeds hold nothing else,
\* so no synthetic gap event and no merged row is in any feed.
C11_FeedsMirrorInput ==
    /\ Mirrors(cal.all, FeedRows(""))
    /\ Mirrors(cal.rink, FeedRows("1"))
    /\ Mirrors(cal.locker, FeedRows("2"))
    /\ Mirrors(cal.room, FeedRows("3"))

\* the feeds are written from three rows of which two start together and
\* two leave a gap that gives a synthetic ice cut
C11_Witness ==
    /\ outputs # <<>>
    /\ synthetic # <<>>
    /\ Len(all_rows) = 3
    /\ \E i, j \in 1..3 : i # j /\ all_rows[i].start = all_rows[j].start
    /\ Len(cal.all) = 3
    /\ Len(cal.rink) = 2
    /\ Len(cal.locker) + Len(cal.room) = 1

\* C12: a row whose start or end cannot be parsed is skipped for that row
\* only and never aborts the run: with such a row in the input the run does
\* not end in an exception before any of its files is written.
C12_BadRowSkipped ==
    (\E i \in 1..Len(all_rows) : ~Parseable(all_rows[i]))
        => ~(pc = "raised" /\ outputs = <<>>)

-----------------------------------------------------------------------------
(* The claims about the categories and the pages, checked under Spec *)

\* the rows of rows that are maintenance, in their order
MaintenanceRows(rows) == SelectSeq(rows, Maintenance)

\* s and t hold the same rows the same number of times
SameRows(s, t) ==
    /\ Len(s) = Len(t)
    /\ \A r \in {s[i] : i \in 1..Len(s)} \cup {t[i] : i \in 1..Len(t)} :
          Cardinality({i \in 1..Len(s) : s[i] = r})
              = Cardinality({i \in 1..Len(t) : t[i] = r})

\* C13: an event is classified maintenance if and only if it is synthetic or
\* its lower-cased title holds a keyword and it lasts at most 20 whole
\* minutes; every view gives each row it renders this category, and the
\* ice-cut page lists exactly the maintenance events.
C13_SameCategoryEverywhere ==
    /\ \A k \in 1..Len(html) :
          html[k].is_icecut = Maintenance(events[html[k].i])
    /\ (pc = "html_loop" /\ view = "icecut")
          => SameRows(events, MaintenanceRows(all_rows \o synthetic))

\* the ice-cut page is rendered from a rink ice cut, a rink event and the
\* synthetic ice cut of the gap between them
C13_Witness ==
    /\ PassDone
    /\ view = "icecut"
    /\ Len(all_rows) = 2
    /\ Len(html) = 2
    /\ \E j, k \in 1..2 :
          /\ events[j].synthetic = "1"
          /\ events[k].synthetic # "1"
          /\ html[j].is_icecut /\ html[k].is_icecut

-----------------------------------------------------------------------------
(* The claims about the foreground colour, checked under SpecStyle *)

\* the value of a hexadecimal digit, in either case
DigitValue(c) ==
    CASE c = "0" -> 0 [] c = "1" -> 1 [] c = "2" -> 2 [] c = "3" -> 3
      [] c = "4" -> 4 [] c = "5" -> 5 [] c = "6" -> 6 [] c = "7" -> 7
      [] c = "8" -> 8 [] c = "9" -> 9
      [] c \in {"a", "A"} -> 10 [] c \in {"b", "B"} -> 11
      [] c \in {"c", "C"} -> 12 [] c \in {"d", "D"} -> 13
      [] c \in {"e", "E"} -> 14 [] c \in {"f", "F"} -> 15
      [] OTHER -> -1

\* '#' followed by exactly 3 or exactly 6 hexadecimal digits
WellFormed(bg) ==
    /\ Len(bg) \in {4, 7}
    /\ bg[1] = "#"
    /\ \A i \in 2..Len(bg) : DigitValue(bg[i]) >= 0

\* the n-th 8-bit channel of a well-formed background; a digit of the
\* shorthand stands for the digit written twice
Channel(bg, n) ==
    IF Len(bg) = 4 THEN 17 * DigitValue(bg[n + 1])
    ELSE 16 * DigitValue(bg[2 * n]) + DigitValue(bg[2 * n + 1])

\* the background the page read for the rendered row k
Background(k) == strip(events[html[k].i].et_color)

\* the rendered rows whose foreground is computed from their background
Coloured == { k \in 1..Len(html) : ~Maintenance(events[html[k].i]) }

\* C14: the foreground-color computation never fails and gives white or
\* black for every background string, and black for a background that is
\* not '#' with exactly 3 or 6 hex digits, in every view that styles rows.
C14_ForegroundTotal ==
    /\ error # "ValueError"
    /\ \A k \in Coloured :
          /\ Background(k) # <<>> => html[k].style.color \in {"white", "black"}
          /\ (Background(k) # <<>> /\ ~WellFormed(Background(k)))
                => html[k].style.color = "black"

\* C15: for a well-formed background the foreground is white iff
\* 299 R + 587 G + 114 B < 140000, and black otherwise, the channels of a
\* shorthand being those of its digit-doubled form.
C15_WhiteIffDark ==
    \A k \in Coloured :
        WellFormed(Background(k)) =>
            LET bg == Background(k)
            IN  (html[k].style.color = "white")
                    <=> (299 * Channel(bg, 1) + 587 * Channel(bg, 2)
                            + 114 * Channel(bg, 3) < 140000)

-----------------------------------------------------------------------------
(* The claims about the displays, checked under Spec *)

\* the events the running pass has rendered
Shown == { html[k].i : k \in 1..Len(html) }

\* C16: the rolling single-day display renders no event whose end is before
\* now: every rendered row, marked or not, ends at now or later and starts on
\* the date of now.
C16_NoPastRowOnDisplay ==
    pc = "display_loop" =>
        \A i \in Shown :
            /\ end_of(events[i]) >= now
            /\ date_of(start_of(events[i])) = date_of(now)

\* the rolling display has dropped an event that ended before now and has
\* rendered one that ends at now
C16_Witness ==
    /\ PassDone
    /\ view = "display"
    /\ \E i \in 1..Len(events) : end_of(events[i]) < now /\ i \notin Shown
    /\ \E i \in Shown : end_of(events[i]) = now

\* the events of the selected day that the row loop has passed
OfSelectedDay ==
    { i \in 1..(idx - 1) :
        date_of(start_of(events[i])) = date_of(now) + selectedDay }

\* C17: in the paged display the now logic runs only on the page of the day
\* that holds now: on any other selected day no row is marked and no event of
\* that day is hidden, while on day 0 the events that ended before now are
\* hidden.
C17_NowOnlyOnDayZero ==
    pc = "render_loop" =>
        /\ selectedDay # 0 => (marks(html) = {} /\ Shown = OfSelectedDay)
        /\ selectedDay = 0 =>
              Shown = { i \in OfSelectedDay : end_of(events[i]) >= now }

\* the page of tomorrow shows an ordinary event that is still to come and
\* does not mark it
C17_Witness ==
    /\ PassDone
    /\ view = "multi"
    /\ selectedDay = 1
    /\ \E i \in Shown :
          /\ ~Maintenance(events[i])
          /\ start_of(events[i]) > now
    /\ marks(html) = {}

-----------------------------------------------------------------------------
(* The claim about the whole run, checked under SpecRun *)

\* C18: for an input in which every row has parseable timestamps, with any
\* titles, colours and resources, a run of csv_to_ics does not raise; it
\* goes on to write the four feeds, the five static pages, the paged display
\* and the rolling display.
C18_RunCompletes ==
    (\A i \in 1..Len(all_rows) : Parseable(all_rows[i])) => pc # "raised"

-----------------------------------------------------------------------------
(* The claims about the passes as a sequence, checked under Spec *)

\* C19: no operation edits an event record or the input row list in place:
\* reading only appends to the list, and no step of gap synthesis, merging
\* or rendering changes a row that was read, the order of the rows, or a
\* synthetic row; the row of a merged run is a new record and the first
\* member of the run keeps its title.
C19_InputsNeverEdited ==
    [][/\ Len(all_rows') >= Len(all_rows)
       /\ SubSeq(all_rows', 1, Len(all_rows)) = all_rows
       /\ pc # "read" => (all_rows' = all_rows /\ synthetic' = synthetic)]_vars

\* a display has merged two events that start together into a row that is
\* none of the input rows, and the first event read still has the title
\* fields it was read with
C19_Witness ==
    /\ pc \in {"display_loop", "render_loop"}
    /\ Len(all_rows) = 2
    /\ all_rows[1].start = all_rows[2].start
    /\ \E i \in 1..Len(events) :
          /\ events[i].start = all_rows[1].start
          /\ events[i] # all_rows[1]
          /\ events[i] # all_rows[2]
          /\ events[i].best_desc = events[i].desc
          /\ all_rows[1].best_desc # all_rows[1].desc

-----------------------------------------------------------------------------
(* The claim about passes that follow one another, checked under SpecSeq *)

\* what a pass of the static list marks when it runs alone on events at now:
\* the events in progress or, when none is, the first event to come
AloneMarks ==
    IF InProgress # {} THEN InProgress
    ELSE IF Upcoming # {} THEN {First(Upcoming)} ELSE {}

\* C20: every render pass starts in state SEARCHING, and what an earlier pass
\* has marked never affects what a later pass marks: after any sequence of
\* passes a pass marks what it marks when it runs alone on the same inputs.
C20_PassStartsSearching ==
    /\ (pc \in Loops /\ idx = 1) => ~future_now_marked
    /\ PassDone => marks(html) = AloneMarks

\* the page before has marked an event in progress, and this page, which
\* holds no event in progress, has marked its first event to come
C20_Witness ==
    /\ PassDone
    /\ ~prev_marks.seen
    /\ prev_marks.marks # {}
    /\ InProgress = {}
    /\ Upcoming # {}
    /\ marks(html) = {First(Upcoming)}

-----------------------------------------------------------------------------
(* The claim about the reference instant, checked under Spec *)

\* C21: within one pass the reference instant is sampled once, and that one
\* value serves every comparison, the day filter and the date label of the
\* pass: the day the "Today" line of the rolling display names is the day of
\* the now its row loop compares with.
C21_NowSampledOnce ==
    (pc = "display_loop") => subheader = date_of(now)

-----------------------------------------------------------------------------
(* The claims about the two kinds of maintenance row *)

\* the two sub-kinds as the specification words them: inferred is a
\* synthetic gap event, confirmed is a real event found by keyword and
\* duration
Inferred(r) == r.synthetic = "1"
Confirmed(r) == ~Inferred(r) /\ Maintenance(r)

InferredTitle == <<"I","C","E"," ","C","U","T","?">>
ConfirmedTitle == <<"I","C","E"," ","C","U","T">>
InferredBackground == <<"#","9","9","9","9","9","9">>
ConfirmedBackground == <<"#","c","c","c","c","c","c">>

\* C22: on every page a synthetic event is rendered as inferred (title
\* 'ICE CUT?' on #999999) and a real event found by keyword and duration as
\* confirmed (title 'ICE CUT' on #cccccc); the two renderings differ, and a
\* synthetic event is never rendered as confirmed.
C22_TwoMaintenanceKinds ==
    PassDone =>
        \A k \in 1..Len(html) :
            LET r == events[html[k].i]
            IN  /\ Inferred(r) =>
                      /\ html[k].desc = InferredTitle
                      /\ html[k].style.background = InferredBackground
                /\ Confirmed(r) =>
                      /\ html[k].desc = ConfirmedTitle
                      /\ html[k].style.background = ConfirmedBackground

\* a pass has rendered a synthetic event, whose placeholder title holds a
\* keyword and which lasts ten minutes, and a real ice cut
C22_Witness ==
    /\ PassDone
    /\ \E k \in 1..Len(html) :
          /\ Inferred(events[html[k].i])
          /\ Maintenance([events[html[k].i] EXCEPT !.synthetic = ""])
    /\ \E k \in 1..Len(html) : Confirmed(events[html[k].i])

-----------------------------------------------------------------------------
(* Inputs for the category of a merged row: events that start together, one  *)
(* of them an ice cut by keyword and duration, one whose title shares only   *)
(* the first word of the keyword, one whose title holds the keyword's words  *)
(* two blanks apart; and a rink event that leaves a 10-minute gap after the  *)
(* ice cut.                                                                  *)

TextIceShow      == <<"I","c","e"," ","S","h","o","w">>
TextIceCutSpaced == <<"I","c","e"," "," ","C","u","t">>

KindRows ==
    { Row(TenAM, TenAM + 10 * 60, <<>>, TextIceCut, "1", <<>>, "cut"),
      Row(TenAM, TenAM + 30 * 60, TextIceShow, <<>>, "2", ColorWhite, "show"),
      Row(TenAM, TenAM + 10 * 60, TextIceCutSpaced, <<>>, "3", ColorGreen,
          "spaced"),
      Row(TenAM + 20 * 60, TenAM + 50 * 60, TextX, <<>>, "1", ColorGreen,
          "rink") }

KindNows == {TenAM + 5 * 60}

ReadKindRow == \E r \in KindRows : ReadRow(r, MaxKindRows)
StartKindDisplay == \E t0, t \in KindNows : GenerateDisplayHtml(t0, t)
StartKindRender == \E day \in Days, t \in KindNows : Render(day, t)

NextKind ==
    \/ ReadKindRow
    \/ BuildSynthetic
    \/ StartKindDisplay
    \/ DisplayRow
    \/ DisplayDone
    \/ StartKindRender
    \/ RenderRow
    \/ RenderDone

SpecKind == Init /\ [][NextKind]_vars

\* C23: merging preserves classification: the row of a run of events that
\* start together is rendered as maintenance exactly when the run's first
\* member, classified on its own, is maintenance.
C23_MergeKeepsCategory ==
    (PassDone /\ view \in {"display", "multi"}) =>
        \A k \in 1..Len(html) :
            html[k].is_icecut = Maintenance(RunOf(events[html[k].i])[1])

-----------------------------------------------------------------------------
(* The claim about events in progress on the rolling display, checked      *)
(* under Spec                                                              *)

\* the rendered rows of the pass stand for the event: one of them is the
\* row of the run of events that start when it starts
Represented(r) ==
    \E k \in 1..Len(html) : start_of(events[html[k].i]) = start_of(r)

\* C24: on the rolling display every event that is not maintenance, starts
\* today and is in progress at now is represented by a rendered row, also
\* when it was merged with events that start with it and end at another time.
C24_InProgressIsShown ==
    (PassDone /\ view = "display") =>
        \A j \in 1..Len(MergeInput) :
            LET r == MergeInput[j]
            IN  (~Maintenance(r) /\ Today(r) /\ Contains(r, now))
                    => Represented(r)

-----------------------------------------------------------------------------
(* The claim about synthetic events and the other rink events, checked     *)
(* under SpecGap                                                           *)

\* the two events share more than an instant
Overlap(a, b) == start_of(a) < end_of(b) /\ start_of(b) < end_of(a)

\* C25: no synthetic gap event overlaps any real event of the rink, whether
\* or not that event is one of the pair that produced it, also when rink
\* bookings overlap one another or start together.
C25_NoOverlapWithAnyRinkEvent ==
    \A s \in 1..Len(synthetic) :
        \A j \in 1..Len(all_rows) :
            all_rows[j].resource_id = "1"
                => ~Overlap(synthetic[s], all_rows[j])

====
